---- MODULE Spec2Model ----
(***************************************************************************)
(* A model of the material-combiner add-on's pixel buffer utilities        *)
(* (utils/images.py), material sorting (utils/materials.py), the shader    *)
(* node override panel (ui/shader_nodes_panels.py) and the temporary-file  *)
(* image write-back (utils/ctypes_imbuf_utils.py).                         *)
(*                                                                         *)
(* A pixel buffer is a record [w, h, ch, at] with at[x][y][c] the element  *)
(* numpy's buffer[x, y, c] names; indices are 0-based as in the code.      *)
(* Element values are integers: fixed-point colour values in units of      *)
(* 1/Unit where the colour conversions read them, plain tags elsewhere.    *)
(***************************************************************************)
EXTENDS Integers, Sequences, FiniteSets, TLC

VARIABLES
    phase,          \* which call has run: "idle" before it, "done" after it
    target,         \* pixel_buffer_paste: target_buffer (mutated in place)
    call,           \* pixel_buffer_paste: the arguments of the call made
    exit,           \* how the call left: "return", or the exception raised
    img,            \* the host image (bpy.types.Image) a call reads
    buffer,         \* the pixel buffer a call returned or converts in place
    materials,      \* bpy.data.materials: each material's fields
    mat_dict,       \* sort_materials: the groups returned
    context,        \* the panel's context: space_data, material, window_manager
    layout,         \* what ShaderNodesOverridePanel.draw put on the panel
    files,          \* the file system: the paths at which a file exists
    images,         \* bpy.data.images: the image copies a call made and left
    image_buffer    \* the ImBuf numpy_pixels_to_file borrowed, as the call left it

vars ==
    <<phase, target, call, exit, img, buffer, materials, mat_dict, context, layout, files,
      images, image_buffer>>

Max(a, b) == IF a >= b THEN a ELSE b
Min(a, b) == IF a <= b THEN a ELSE b

----------------------------------------------------------------------------
(* numpy: shapes, basic slices and broadcasting assignment *)

\* The index triples <<x, y, c>> of a buffer of shape (w, h, ch).
Cells(w, h, ch) == (0..(w - 1)) \X (0..(h - 1)) \X (0..(ch - 1))

\* A buffer of shape (w, h, ch) whose element (x, y, c) is f[<<x, y, c>>].
MakeBuffer(w, h, ch, f) ==
    [w |-> w, h |-> h, ch |-> ch,
     at |-> [x \in 0..(w - 1) |-> [y \in 0..(h - 1) |-> [c \in 0..(ch - 1) |-> f[<<x, y, c>>]]]]]

NoBuffer == [w |-> 0, h |-> 0, ch |-> 0, at |-> <<>>]

\* A slice bound i on an axis of length n: negative bounds count from the end,
\* then the bound is clamped into 0..n.
SliceBound(i, n) == IF i < 0 THEN Max(i + n, 0) ELSE Min(i, n)

\* The indices a[start:stop] selects on an axis of length n, as [lo, len].
Slice(start, stop, n) ==
    LET lo == SliceBound(start, n)
        hi == SliceBound(stop, n)
    IN [lo |-> lo, len |-> Max(hi - lo, 0)]

\* Whether a value axis of length v broadcasts to a target axis of length t.
Broadcasts(v, t) == v = t \/ v = 1

----------------------------------------------------------------------------
(* utils/images.py: pixel_buffer_paste *)

\* The source argument of pixel_buffer_paste: kind is the Python type
\* ("ndarray", "tuple", "list" or "other"), ndim the number of axes of an
\* ndarray, px the components of a single pixel, buf the source image.
PixelSource(kind, px) == [kind |-> kind, ndim |-> 1, px |-> px, buf |-> NoBuffer]
ImageSource(buf) == [kind |-> "ndarray", ndim |-> 3, px |-> <<>>, buf |-> buf]
OtherSource(kind, ndim) == [kind |-> kind, ndim |-> ndim, px |-> <<>>, buf |-> NoBuffer]

\* Lines 156-170: "image", "pixel", or the TypeError raised.
source_is_pixel(target_buffer, src) ==
    IF src.kind = "ndarray"
    THEN IF src.ndim = 3 THEN "image"
         ELSE IF src.ndim = 1 /\ target_buffer.ch >= src.ndim THEN "pixel"
         ELSE "TypeError"
    ELSE IF src.kind \in {"tuple", "list"} /\ target_buffer.ch >= Len(src.px) THEN "pixel"
    ELSE "TypeError"

fit_box(target_buffer, box) ==
    <<Max(box[1], 0), Max(box[2], 0),
      Min(box[3], target_buffer.w + 1), Min(box[4], target_buffer.h + 1)>>

Raised(e, target_buffer) == [exit |-> e, target |-> target_buffer]

\* target_buffer[xs, ys, :nc] = value, where value is an array of shape
\* (value.w, value.h, value.ch); numpy raises ValueError when the value's shape
\* does not broadcast to the shape of the target slice.
AssignSlice(target_buffer, xs, ys, nc, value) ==
    LET cs == Slice(0, nc, target_buffer.ch)
    IN  IF ~(/\ Broadcasts(value.w, xs.len)
             /\ Broadcasts(value.h, ys.len)
             /\ Broadcasts(value.ch, cs.len))
        THEN Raised("ValueError", target_buffer)
        ELSE [exit |-> "return",
              target |-> MakeBuffer(target_buffer.w, target_buffer.h, target_buffer.ch,
                  [e \in Cells(target_buffer.w, target_buffer.h, target_buffer.ch) |->
                      IF /\ xs.lo <= e[1] /\ e[1] < xs.lo + xs.len
                         /\ ys.lo <= e[2] /\ e[2] < ys.lo + ys.len
                         /\ e[3] < cs.len
                      THEN value.at[IF value.w = 1 THEN 0 ELSE e[1] - xs.lo]
                                   [IF value.h = 1 THEN 0 ELSE e[2] - ys.lo]
                                   [IF value.ch = 1 THEN 0 ELSE e[3]]
                      ELSE target_buffer.at[e[1]][e[2]][e[3]]])]

\* a[xs, ys]: the sub-array of a that two slices select.
SubBuffer(a, xs, ys) ==
    MakeBuffer(xs.len, ys.len, a.ch,
               [e \in Cells(xs.len, ys.len, a.ch) |-> a.at[xs.lo + e[1]][ys.lo + e[2]][e[3]]])

\* Lines 183-193: the source is a single pixel colour.
paste_pixel(target_buffer, src, corner_or_box) ==
    IF Len(corner_or_box) # 4 THEN Raised("TypeError", target_buffer)
    ELSE LET fit == fit_box(target_buffer, corner_or_box)
             num_source_channels == Len(src.px)
         IN  AssignSlice(target_buffer,
                         Slice(fit[1], fit[3], target_buffer.w),
                         Slice(fit[2], fit[4], target_buffer.h),
                         num_source_channels,
                         MakeBuffer(1, 1, num_source_channels,
                                    [e \in Cells(1, 1, num_source_channels) |-> src.px[e[3] + 1]]))

\* Lines 194-221: the source is an image.
paste_image(target_buffer, src, corner_or_box) ==
    IF Len(corner_or_box) \notin {2, 4} THEN Raised("TypeError", target_buffer)
    ELSE LET source == src.buf
             left == corner_or_box[1]
             upper == corner_or_box[2]
             right == IF Len(corner_or_box) = 2 THEN left + source.w ELSE corner_or_box[3]
             lower == IF Len(corner_or_box) = 2 THEN upper + source.h ELSE corner_or_box[4]
         IN  IF target_buffer.ch < source.ch THEN Raised("TypeError", target_buffer)
             ELSE LET fit == fit_box(target_buffer, <<left, upper, right, lower>>)
                      source_left == fit[1] - left
                      source_upper == fit[2] - upper
                      source_right == source.w - right + fit[3]
                      source_lower == source.h - lower + fit[4]
                      num_source_channels == source.ch
                  IN  AssignSlice(target_buffer,
                                  Slice(fit[1], fit[3], target_buffer.w),
                                  Slice(fit[2], fit[4], target_buffer.h),
                                  num_source_channels,
                                  SubBuffer(source,
                                            Slice(source_left, source_right, source.w),
                                            Slice(source_upper, source_lower, source.h)))

pixel_buffer_paste(target_buffer, src, corner_or_box) ==
    LET parsed == source_is_pixel(target_buffer, src)
    IN  IF parsed = "TypeError" THEN Raised("TypeError", target_buffer)
        ELSE IF parsed = "pixel" THEN paste_pixel(target_buffer, src, corner_or_box)
        ELSE paste_image(target_buffer, src, corner_or_box)

----------------------------------------------------------------------------
(* Pasting into a target buffer: one call of pixel_buffer_paste *)

TargetW == 3
TargetH == 2
TargetCh == 2
MaxSource == 2
CoordSlack == 2

\* Element tags: a target element, a source image element, a pixel component.
TargetTag(e) == 100 * e[1] + 10 * e[2] + e[3]
SourceTag(e) == 1000 + 100 * e[1] + 10 * e[2] + e[3]
PixelTag(c) == 5000 + c

InitialTarget ==
    MakeBuffer(TargetW, TargetH, TargetCh,
               [e \in Cells(TargetW, TargetH, TargetCh) |-> TargetTag(e)])

PasteCoords == (0 - CoordSlack)..(Max(TargetW, TargetH) + CoordSlack)
Corners == {<<l, u>> : l \in PasteCoords, u \in PasteCoords}
Boxes == {<<l, u, r, d>> : l \in PasteCoords, u \in PasteCoords, r \in PasteCoords, d \in PasteCoords}
SourceImages ==
    {ImageSource(MakeBuffer(w, h, ch, [e \in Cells(w, h, ch) |-> SourceTag(e)])) :
        w \in 1..MaxSource, h \in 1..MaxSource, ch \in 1..(TargetCh + 1)}
PixelColours == {[c \in 1..n |-> PixelTag(c - 1)] : n \in 0..(TargetCh + 1)}

NoCall == [op |-> "none"]
NoImage ==
    [size |-> <<0, 0>>, channels |-> 0, colorspace |-> "", pixels |-> <<>>,
     filepath_raw |-> "", source |-> "", is_dirty |-> FALSE]

\* The parts of the state a specification does not use stay as they start.
PasteIdle == target = NoBuffer
BufferIdle == img = NoImage /\ buffer = NoBuffer
SortIdle == materials = <<>> /\ mat_dict = <<>>
PanelIdle == context = <<>> /\ layout = <<>>
FilesIdle == files = {}
NoImBuf == [none |-> TRUE]
HostIdle == images = {} /\ image_buffer = NoImBuf

PasteInit ==
    /\ phase = "idle"
    /\ target = InitialTarget
    /\ call = NoCall
    /\ exit = "none"
    /\ BufferIdle
    /\ SortIdle
    /\ PanelIdle
    /\ FilesIdle
    /\ HostIdle

\* The call pixel_buffer_paste(target, src, corner_or_box).
Paste(src, corner_or_box) ==
    /\ LET r == pixel_buffer_paste(target, src, corner_or_box)
       IN  /\ target' = r.target
           /\ exit' = r.exit
    /\ call' = [op |-> "paste", source |-> src, corner_or_box |-> corner_or_box,
                before |-> target]
    /\ phase' = "done"
    /\ UNCHANGED <<img, buffer, materials, mat_dict, context, layout, files, images, image_buffer>>

PasteImageAtCorner ==
    /\ phase = "idle"
    /\ \E src \in SourceImages, corner \in Corners : Paste(src, corner)

PasteImageIntoBox ==
    /\ phase = "idle"
    /\ \E src \in SourceImages, box \in Boxes : Paste(src, box)

PastePixelIntoBox ==
    /\ phase = "idle"
    /\ \E kind \in {"tuple", "ndarray"}, px \in PixelColours, box \in Boxes :
           Paste(PixelSource(kind, px), box)

\* Calls whose arguments pixel_buffer_paste refuses to parse.
PasteUnparsed ==
    /\ phase = "idle"
    /\ \E a \in {<<OtherSource("ndarray", 2), <<0, 0, 1, 1>> >>,
                 <<OtherSource("other", 0), <<0, 0, 1, 1>> >>}
              \cup {<<PixelSource("list", px), <<0, 0>> >> : px \in PixelColours}
              \cup {<<src, <<0, 0, 1>> >> : src \in SourceImages} :
           Paste(a[1], a[2])

PasteNext ==
    \/ PasteImageAtCorner
    \/ PasteImageIntoBox
    \/ PastePixelIntoBox
    \/ PasteUnparsed

SpecPaste == PasteInit /\ [][PasteNext]_vars

----------------------------------------------------------------------------
(* Claims about pixel_buffer_paste *)

\* The box a finished paste was aimed at: the box given, or the source image
\* placed with its top left corner at the corner given.
PlacedBox ==
    IF Len(call.corner_or_box) = 4 THEN call.corner_or_box
    ELSE <<call.corner_or_box[1], call.corner_or_box[2],
           call.corner_or_box[1] + call.source.buf.w,
           call.corner_or_box[2] + call.source.buf.h>>

\* Whether target pixel (x, y) lies inside box b (b clipped to the target by x, y
\* ranging over the target only).
InBox(b, x, y) == b[1] <= x /\ x < b[3] /\ b[2] <= y /\ y < b[4]

PastedImageAtCorner ==
    /\ phase = "done" /\ call.op = "paste"
    /\ call.source.kind = "ndarray" /\ call.source.ndim = 3
    /\ Len(call.corner_or_box) = 2
    /\ call.source.buf.ch <= call.before.ch

PastedPixelIntoBox ==
    /\ phase = "done" /\ call.op = "paste"
    /\ call.source.kind \in {"tuple", "ndarray"} /\ call.source.ndim = 1
    /\ Len(call.source.px) <= call.before.ch
    /\ Len(call.corner_or_box) = 4

PasteSucceeded ==
    /\ phase = "done" /\ call.op = "paste" /\ exit = "return"
    /\ Len(call.corner_or_box) \in {2, 4}

SourceChannels ==
    IF call.source.ndim = 3 THEN call.source.buf.ch ELSE Len(call.source.px)

\* C1: pasting a 3-D source image at a 2-element corner succeeds for every
\* integer corner, overhanging or not, and afterwards every target pixel inside
\* both the target and the placed source rectangle holds the source pixel
\* source[x-left][y-upper] in every source channel.
C1_PasteAtCornerClipsToTarget ==
    PastedImageAtCorner =>
        /\ exit = "return"
        /\ \A x \in 0..(target.w - 1), y \in 0..(target.h - 1) :
               InBox(PlacedBox, x, y) =>
                   \A c \in 0..(call.source.buf.ch - 1) :
                       target.at[x][y][c]
                           = call.source.buf.at[x - PlacedBox[1]][y - PlacedBox[2]][c]

\* C2: pasting a single pixel colour into a box writes the colour to exactly
\* the target pixels inside the box clipped to the target, and writes no pixel
\* outside the box, for every box (negative or outside the target included).
C2_PixelFillsExactlyTheClippedBox ==
    PastedPixelIntoBox =>
        /\ exit = "return"
        /\ \A x \in 0..(target.w - 1), y \in 0..(target.h - 1) :
               IF InBox(call.corner_or_box, x, y)
               THEN \A c \in 0..(Len(call.source.px) - 1) :
                        target.at[x][y][c] = call.source.px[c + 1]
               ELSE target.at[x][y] = call.before.at[x][y]

\* C3: every successful paste leaves unchanged every target element whose
\* channel index is at least the source's channel count, and every target
\* element whose (x, y) lies outside the clipped destination rectangle.
C3_PasteFrame ==
    PasteSucceeded =>
        \A x \in 0..(target.w - 1), y \in 0..(target.h - 1), c \in 0..(target.ch - 1) :
            (c >= SourceChannels \/ ~InBox(PlacedBox, x, y)) =>
                target.at[x][y][c] = call.before.at[x][y][c]

----------------------------------------------------------------------------
(* Colour values.  An element c of a float buffer is the integer c * Unit;  *)
(* the thresholds and the linear segments are exact at that resolution.     *)
(* The power segments are evaluated in fixed point at 1/Milli, by integer   *)
(* root extraction.                                                         *)

Unit == 10 * 1000 * 1000
Milli == 1000
MilliToUnit == Unit \div Milli

\* 0.0031308 and 0.04045, in units of 1/Unit.
LinearSmallLimit == 31308
SrgbSmallLimit == 404500

\* a * b for two fixed-point values at 1/Milli.
FMul(a, b) == (a * b) \div Milli

\* Roots of a fixed-point value v >= 0 at 1/Milli (rounded down).
FSqrt(v) == CHOOSE z \in 0..(2 * Milli) : z * z <= v * Milli /\ (z + 1) * (z + 1) > v * Milli
FCbrt(v) ==
    CHOOSE z \in 0..(2 * Milli) :
        z * z * z <= v * Milli * Milli /\ (z + 1) * (z + 1) * (z + 1) > v * Milli * Milli
FPow5(z) == FMul(FMul(FMul(z, z), FMul(z, z)), z)
FRoot5(v) == CHOOSE z \in 0..(2 * Milli) : FPow5(z) <= v /\ FPow5(z + 1) > v

\* small_rgb * 12.92, clamped at 0 (images.py:47).
LinearToSrgbSmall(c) == IF c < 0 THEN 0 ELSE (c * 1292) \div 100

\* 1.055 * c ** (1.0 / 2.4) - 0.055 (images.py:51); c ** (5/12) is taken as
\* c ** (1/3) * c ** (1/12).
LinearToSrgbNotSmall(c) ==
    LET m == c \div MilliToUnit
        third == FCbrt(m)
        twelfth == FSqrt(FSqrt(third))
    IN  ((1055 * FMul(third, twelfth)) \div Milli - 55) * MilliToUnit

\* small_rgb / 12.92, clamped at 0 (images.py:62).
SrgbToLinearSmall(c) == IF c < 0 THEN 0 ELSE (c * 100) \div 1292

\* ((c + 0.055) / 1.055) ** 2.4 (images.py:66); u ** (12/5) is taken as
\* u ** 2 * (u ** 2) ** (1/5).
SrgbToLinearNotSmall(c) ==
    LET m == c \div MilliToUnit
        u == ((m + 55) * Milli) \div 1055
        square == FMul(u, u)
    IN  FMul(square, FRoot5(square)) * MilliToUnit

----------------------------------------------------------------------------
(* utils/images.py: colourspace conversion of a buffer, in place *)

\* The boolean array buffer[:, :, :3] < limit (an element outside the view
\* is in no mask).
SmallMask(buf, limit) ==
    [x \in 0..(buf.w - 1) |-> [y \in 0..(buf.h - 1) |-> [c \in 0..(buf.ch - 1) |->
        c < 3 /\ buf.at[x][y][c] < limit]]]

\* np.invert(is_small) over the view buffer[:, :, :3].
InvertMask(buf, mask) ==
    [x \in 0..(buf.w - 1) |-> [y \in 0..(buf.h - 1) |-> [c \in 0..(buf.ch - 1) |->
        c < 3 /\ ~mask[x][y][c]]]]

\* The expression a conversion assigns through a mask, at element value c.
Segment(name, c) ==
    CASE name = "linear_to_srgb_small" -> LinearToSrgbSmall(c)
      [] name = "linear_to_srgb_not_small" -> LinearToSrgbNotSmall(c)
      [] name = "srgb_to_linear_small" -> SrgbToLinearSmall(c)
      [] name = "srgb_to_linear_not_small" -> SrgbToLinearNotSmall(c)

\* rgb_only_view[mask] = <segment>(rgb_only_view[mask])
AssignMasked(buf, mask, segment) ==
    MakeBuffer(buf.w, buf.h, buf.ch,
               [e \in Cells(buf.w, buf.h, buf.ch) |->
                   IF mask[e[1]][e[2]][e[3]]
                   THEN Segment(segment, buf.at[e[1]][e[2]][e[3]])
                   ELSE buf.at[e[1]][e[2]][e[3]]])

\* A variant that takes the second mask from the buffer after the first write.
buffer_convert_linear_to_srgb_remasked(buf) ==
    LET is_small == SmallMask(buf, LinearSmallLimit)
        written == AssignMasked(buf, is_small, "linear_to_srgb_small")
        is_not_small == InvertMask(written, SmallMask(written, LinearSmallLimit))
    IN  AssignMasked(written, is_not_small, "linear_to_srgb_not_small")

buffer_convert_linear_to_srgb(buf) ==
    LET is_small == SmallMask(buf, LinearSmallLimit)
        written == AssignMasked(buf, is_small, "linear_to_srgb_small")
        is_not_small == InvertMask(buf, is_small)
    IN  AssignMasked(written, is_not_small, "linear_to_srgb_not_small")

buffer_convert_srgb_to_linear(buf) ==
    LET is_small == SmallMask(buf, SrgbSmallLimit)
        written == AssignMasked(buf, is_small, "srgb_to_linear_small")
        is_not_small == InvertMask(buf, is_small)
    IN  AssignMasked(written, is_not_small, "srgb_to_linear_not_small")

----------------------------------------------------------------------------
(* utils/images.py: get_pixel_buffer and new_pixel_buffer *)

linear_colorspaces == {"Linear", "Non-color", "Raw"}
supported_colorspaces == linear_colorspaces \cup {"sRGB"}

\* buffer[:, ::-1, :]
FlipY(buf) ==
    MakeBuffer(buf.w, buf.h, buf.ch,
               [e \in Cells(buf.w, buf.h, buf.ch) |-> buf.at[e[1]][buf.h - 1 - e[2]][e[3]]])

\* Lines 70-79: the image's flat pixels viewed in shape (width, height,
\* channels) (C order: the last axis varies fastest), then with the y-axis flipped.
ReadPixels(image) ==
    LET width == image.size[1]
        height == image.size[2]
        channels == image.channels
    IN  FlipY(MakeBuffer(width, height, channels,
                         [e \in Cells(width, height, channels) |->
                             image.pixels[(e[1] * height + e[2]) * channels + e[3] + 1]]))

Returned(buf) == [exit |-> "return", buffer |-> buf]

\* A variant with the two conversions exchanged.
get_pixel_buffer_swapped(image, atlas_colorspace) ==
    LET buf == ReadPixels(image)
        img_color_space == image.colorspace
    IN  IF atlas_colorspace = "sRGB"
        THEN IF img_color_space = "sRGB" THEN Returned(buf)
             ELSE IF img_color_space \in linear_colorspaces
                  THEN Returned(buffer_convert_linear_to_srgb(buf))
             ELSE [exit |-> "TypeError", buffer |-> NoBuffer]
        ELSE IF atlas_colorspace \in linear_colorspaces
        THEN IF img_color_space \in linear_colorspaces THEN Returned(buf)
             ELSE IF img_color_space = "sRGB"
                  THEN Returned(buffer_convert_srgb_to_linear(buf))
             ELSE [exit |-> "return None", buffer |-> NoBuffer]
        ELSE [exit |-> "TypeError", buffer |-> NoBuffer]

get_pixel_buffer(image, atlas_colorspace) ==
    LET buf == ReadPixels(image)
        img_color_space == image.colorspace
    IN  IF atlas_colorspace = "sRGB"
        THEN IF img_color_space = "sRGB" THEN Returned(buf)
             ELSE IF img_color_space \in linear_colorspaces
                  THEN Returned(buffer_convert_srgb_to_linear(buf))
             ELSE [exit |-> "TypeError", buffer |-> NoBuffer]
        ELSE IF atlas_colorspace \in linear_colorspaces
        THEN IF img_color_space \in linear_colorspaces THEN Returned(buf)
             ELSE IF img_color_space = "sRGB"
                  THEN Returned(buffer_convert_linear_to_srgb(buf))
             \* no else branch: the function falls off its end
             ELSE [exit |-> "return None", buffer |-> NoBuffer]
        ELSE [exit |-> "TypeError", buffer |-> NoBuffer]

\* copy.scale(width, height): the host resamples the copy's pixels to the new
\* size; taken here as nearest-neighbour sampling of the flat, bottom-row-first data.
Scale(image, width, height) ==
    LET old_w == image.size[1]
        old_h == image.size[2]
        ch == image.channels
    IN  [image EXCEPT !.size = <<width, height>>,
                      !.pixels = [i \in 1..(width * height * ch) |->
                          LET c == (i - 1) % ch
                              x == ((i - 1) \div ch) % width
                              y == ((i - 1) \div ch) \div width
                              ox == (x * old_w) \div width
                              oy == (y * old_h) \div height
                          IN  image.pixels[(oy * old_w + ox) * ch + c + 1]]]

\* get_resized_pixel_buffer(img, size), lines 109-117.
get_resized_pixel_buffer(image, size, imgs) ==
    LET copy == image
        scaled == Scale(copy, size[1], size[2])
        got == get_pixel_buffer(scaled, "sRGB")
    IN  \* get_pixel_buffer raised: bpy.data.images.remove(copy) is not reached
        IF got.exit = "TypeError"
        THEN [exit |-> "TypeError", buffer |-> NoBuffer, images |-> imgs \cup {scaled}]
        \* the buffer is a local; the function ends without a return statement
        ELSE [exit |-> "return None", buffer |-> NoBuffer, images |-> imgs]

MaxChannels == 4

\* A variant whose component check is off by one.
new_pixel_buffer_strict(size, color) ==
    LET channels == Len(color)
    IN  IF channels >= MaxChannels \/ channels = 0
        THEN [exit |-> "TypeError", buffer |-> NoBuffer]
        ELSE Returned(FlipY(MakeBuffer(size[1], size[2], channels,
                                       [e \in Cells(size[1], size[2], channels) |->
                                           color[e[3] + 1]])))

new_pixel_buffer(size, color) ==
    LET width == size[1]
        height == size[2]
        channels == Len(color)
    IN  IF channels > MaxChannels \/ channels = 0
        THEN [exit |-> "TypeError", buffer |-> NoBuffer]
        ELSE Returned(FlipY(MakeBuffer(width, height, channels,
                                       [e \in Cells(width, height, channels) |->
                                           color[e[3] + 1]])))

----------------------------------------------------------------------------
(* Making a pixel buffer and converting it: get_pixel_buffer or            *)
(* new_pixel_buffer, then the colourspace conversions on the buffer made.  *)

MaxW == 2
MaxH == 2
MaxOffset == 1

\* Colour values on both sides of both thresholds, from -0.5 to 1.0.
Samples == <<0 - 5000000, 0, 20000, 31307, 31308, 200000, 404499, 404500, 5000000, 10000000>>

\* The colour of n components starting at sample k.
SampleColour(n, k) == [c \in 1..n |-> Samples[((k + c - 2) % Len(Samples)) + 1]]
Colours == {SampleColour(n, k) : n \in 0..(MaxChannels + 1), k \in 1..Len(Samples)}

\* The flat pixel data of a host image, every element different: element i
\* (0-based) is (i + k) * 0.003.
FlatStep == 3 * MilliToUnit
FlatPixels(n, k) == [i \in 1..n |-> (i - 1 + k) * FlatStep]

Colorspaces == supported_colorspaces \cup {"Filmic Log"}

Images ==
    {[size |-> <<w, h>>, channels |-> ch, colorspace |-> cs,
      pixels |-> FlatPixels(w * h * ch, k),
      filepath_raw |-> "", source |-> "GENERATED", is_dirty |-> FALSE] :
        w \in 1..MaxW, h \in 1..MaxH, ch \in 1..MaxChannels,
        cs \in Colorspaces, k \in (0 - 1)..MaxOffset}

BufferInit ==
    /\ phase = "idle"
    /\ call = NoCall
    /\ exit = "none"
    /\ img = NoImage
    /\ buffer = NoBuffer
    /\ PasteIdle
    /\ SortIdle
    /\ PanelIdle
    /\ FilesIdle
    /\ HostIdle

GetPixelBuffer ==
    /\ phase = "idle"
    /\ \E image \in Images, atlas_colorspace \in Colorspaces :
           LET r == get_pixel_buffer(image, atlas_colorspace)
           IN  /\ img' = image
               /\ buffer' = r.buffer
               /\ exit' = r.exit
               /\ phase' = IF r.exit = "return" THEN "made" ELSE "done"
               /\ call' = [op |-> "get_pixel_buffer", atlas_colorspace |-> atlas_colorspace]
    /\ UNCHANGED <<target, materials, mat_dict, context, layout, files, images, image_buffer>>

NewPixelBuffer ==
    /\ phase = "idle"
    /\ \E width \in 0..MaxW, height \in 0..MaxH, color \in Colours :
           LET r == new_pixel_buffer(<<width, height>>, color)
           IN  /\ buffer' = r.buffer
               /\ exit' = r.exit
               /\ phase' = IF r.exit = "return" THEN "made" ELSE "done"
               /\ call' = [op |-> "new_pixel_buffer", size |-> <<width, height>>,
                           color |-> color]
    /\ UNCHANGED <<target, img, materials, mat_dict, context, layout, files, images, image_buffer>>

BufferConvertLinearToSrgb ==
    /\ phase = "made"
    /\ buffer' = buffer_convert_linear_to_srgb(buffer)
    /\ call' = [op |-> "buffer_convert_linear_to_srgb", before |-> buffer]
    /\ exit' = "return"
    /\ phase' = "converted"
    /\ UNCHANGED <<target, img, materials, mat_dict, context, layout, files, images, image_buffer>>

BufferConvertSrgbToLinear ==
    /\ phase = "made"
    /\ buffer' = buffer_convert_srgb_to_linear(buffer)
    /\ call' = [op |-> "buffer_convert_srgb_to_linear", before |-> buffer]
    /\ exit' = "return"
    /\ phase' = "converted"
    /\ UNCHANGED <<target, img, materials, mat_dict, context, layout, files, images, image_buffer>>

GetResizedPixelBuffer ==
    /\ phase = "idle"
    /\ \E image \in Images, width \in 1..MaxW, height \in 1..MaxH :
           LET r == get_resized_pixel_buffer(image, <<width, height>>, images)
           IN  /\ img' = image
               /\ buffer' = r.buffer
               /\ images' = r.images
               /\ exit' = r.exit
               /\ call' = [op |-> "get_resized_pixel_buffer", size |-> <<width, height>>]
    /\ phase' = "done"
    /\ UNCHANGED <<target, materials, mat_dict, context, layout, files, image_buffer>>

BufferNext ==
    \/ GetPixelBuffer
    \/ NewPixelBuffer
    \/ BufferConvertLinearToSrgb
    \/ BufferConvertSrgbToLinear
    \/ GetResizedPixelBuffer

SpecBuffer == BufferInit /\ [][BufferNext]_vars

----------------------------------------------------------------------------
(* Claims about get_pixel_buffer, new_pixel_buffer and the conversions *)

GotPixelBuffer == phase = "made" /\ call.op = "get_pixel_buffer"

\* get_pixel_buffer returned the pixels as read: image and atlas are in the
\* same colourspace family.
GotUnconverted ==
    /\ GotPixelBuffer
    /\ \/ call.atlas_colorspace = "sRGB" /\ img.colorspace = "sRGB"
       \/ call.atlas_colorspace \in linear_colorspaces /\ img.colorspace \in linear_colorspaces

\* C4: the buffer get_pixel_buffer returns is indexed [x][y][channel] with
\* (0, 0) the top left pixel: with the host's flat data stored row by row from
\* the bottom left, buffer[x][y][c] = flat[((H-1-y)*W + x)*C + c].
C4_BufferIsXYTopLeft ==
    GotUnconverted =>
        LET W == img.size[1]
            H == img.size[2]
            C == img.channels
        IN  /\ buffer.w = W /\ buffer.h = H /\ buffer.ch = C
            /\ \A x \in 0..(W - 1), y \in 0..(H - 1), c \in 0..(C - 1) :
                   buffer.at[x][y][c] = img.pixels[((H - 1 - y) * W + x) * C + c + 1]

Converted(op) == phase = "converted" /\ call.op = op

\* The piecewise reference values of the claim.
ReferenceToSrgb(c) ==
    IF c < 0 THEN 0
    ELSE IF c < LinearSmallLimit THEN (c * 1292) \div 100
    ELSE LinearToSrgbNotSmall(c)

ReferenceToLinear(c) ==
    IF c < 0 THEN 0
    ELSE IF c < SrgbSmallLimit THEN (c * 100) \div 1292
    ELSE SrgbToLinearNotSmall(c)

RgbElements(buf) ==
    {e \in (0..(buf.w - 1)) \X (0..(buf.h - 1)) \X (0..(buf.ch - 1)) : e[3] < 3}

\* C5: each conversion replaces every RGB element by the piecewise reference
\* value of the element's value before the call, exactly once: the branch is
\* chosen from the value before the call.
C5_ConversionIsPiecewiseOnce ==
    /\ Converted("buffer_convert_linear_to_srgb") =>
           \A e \in RgbElements(buffer) :
               buffer.at[e[1]][e[2]][e[3]] = ReferenceToSrgb(call.before.at[e[1]][e[2]][e[3]])
    /\ Converted("buffer_convert_srgb_to_linear") =>
           \A e \in RgbElements(buffer) :
               buffer.at[e[1]][e[2]][e[3]] = ReferenceToLinear(call.before.at[e[1]][e[2]][e[3]])

\* A conversion to sRGB has run on a buffer holding an element of the low
\* branch whose result is not small any more, and an element of the high branch.
C5_Witness ==
    /\ Converted("buffer_convert_linear_to_srgb")
    /\ \E e \in RgbElements(buffer) :
           LET c == call.before.at[e[1]][e[2]][e[3]]
           IN  c > 0 /\ c < LinearSmallLimit /\ LinearToSrgbSmall(c) >= LinearSmallLimit
    /\ \E e \in RgbElements(buffer) : call.before.at[e[1]][e[2]][e[3]] >= LinearSmallLimit

\* C6: both conversions leave the alpha channel (the last channel of a
\* 2-channel or 4-channel buffer) of every pixel unchanged.
C6_AlphaUnchanged ==
    (phase = "converted" /\ buffer.ch \in {2, 4}) =>
        \A x \in 0..(buffer.w - 1), y \in 0..(buffer.h - 1) :
            buffer.at[x][y][buffer.ch - 1] = call.before.at[x][y][buffer.ch - 1]

CalledNewPixelBuffer == phase \in {"made", "done"} /\ call.op = "new_pixel_buffer"

\* C10: new_pixel_buffer(size, color) returns a buffer of shape (width,
\* height, len(color)) in which every pixel equals color, for a color of 1 to 4
\* components; for 0 or more than 4 components it raises TypeError.
C10_NewPixelBufferFilled ==
    CalledNewPixelBuffer =>
        IF Len(call.color) \in 1..4
        THEN /\ exit = "return"
             /\ buffer.w = call.size[1] /\ buffer.h = call.size[2]
             /\ buffer.ch = Len(call.color)
             /\ \A x \in 0..(buffer.w - 1), y \in 0..(buffer.h - 1) :
                    \A c \in 0..(buffer.ch - 1) : buffer.at[x][y][c] = call.color[c + 1]
        ELSE exit = "TypeError"

C10_Witness ==
    /\ CalledNewPixelBuffer /\ exit = "return"
    /\ Len(call.color) = 4 /\ buffer.w >= 2 /\ buffer.h >= 2

CalledGetPixelBuffer == phase \in {"made", "done"} /\ call.op = "get_pixel_buffer"

\* C11: get_pixel_buffer raises TypeError whenever the image's colourspace or
\* the requested atlas colourspace is not a supported colourspace; it never
\* returns, with a buffer or with no value, for an unsupported colourspace.
C11_UnsupportedColorspaceRaises ==
    /\ CalledGetPixelBuffer
    /\ img.colorspace \notin supported_colorspaces
           \/ call.atlas_colorspace \notin supported_colorspaces
    => exit = "TypeError"

SameFamily(image_colorspace, atlas_colorspace) ==
    \/ image_colorspace = "sRGB" /\ atlas_colorspace = "sRGB"
    \/ image_colorspace \in linear_colorspaces /\ atlas_colorspace \in linear_colorspaces

\* The value the claim gives element e of the returned buffer, from the value
\* raw the element had as read.
ClaimedElement(e, raw, image_colorspace, atlas_colorspace) ==
    IF SameFamily(image_colorspace, atlas_colorspace) \/ e[3] >= 3 THEN raw
    ELSE IF atlas_colorspace = "sRGB" THEN ReferenceToLinear(raw)
    ELSE ReferenceToSrgb(raw)

\* C12: for supported colourspaces get_pixel_buffer returns the pixels as read
\* when the image and the atlas are in the same colourspace family, the
\* sRGB-to-linear conversion of them, applied once, for a linear-family image
\* and an sRGB atlas, and the linear-to-sRGB conversion of them, applied once,
\* for an sRGB image and a linear-family atlas.
C12_ConvertsAcrossFamiliesOnly ==
    /\ CalledGetPixelBuffer
    /\ img.colorspace \in supported_colorspaces
    /\ call.atlas_colorspace \in supported_colorspaces
    => /\ exit = "return"
       /\ LET raw == ReadPixels(img)
          IN  /\ buffer.w = raw.w /\ buffer.h = raw.h /\ buffer.ch = raw.ch
              /\ \A e \in Cells(raw.w, raw.h, raw.ch) :
                     buffer.at[e[1]][e[2]][e[3]] =
                         ClaimedElement(e, raw.at[e[1]][e[2]][e[3]], img.colorspace,
                                        call.atlas_colorspace)

\* get_pixel_buffer has returned a converted RGBA buffer: an RGB element
\* differs from the value read.
C12_Witness ==
    /\ CalledGetPixelBuffer /\ exit = "return"
    /\ img.colorspace = "sRGB" /\ call.atlas_colorspace \in linear_colorspaces
    /\ buffer.ch = 4 /\ buffer.w >= 2 /\ buffer.h >= 2
    /\ \E e \in RgbElements(buffer) :
           buffer.at[e[1]][e[2]][e[3]] # ReadPixels(img).at[e[1]][e[2]][e[3]]

CalledGetResizedPixelBuffer == phase = "done" /\ call.op = "get_resized_pixel_buffer"

\* C13: get_resized_pixel_buffer(img, size) returns the pixel buffer of a copy
\* of img scaled to size, of shape (size[0], size[1], channels), and leaves the
\* size and pixels of img itself unchanged.
C13_ReturnsResizedBuffer ==
    /\ CalledGetResizedPixelBuffer
    /\ img.colorspace \in supported_colorspaces
    => /\ exit = "return"
       /\ buffer = get_pixel_buffer(Scale(img, call.size[1], call.size[2]), "sRGB").buffer
       /\ buffer.w = call.size[1] /\ buffer.h = call.size[2] /\ buffer.ch = img.channels
       /\ img \in Images

----------------------------------------------------------------------------
(* utils/materials.py: sort_materials *)

\* MaterialSource.from_material(mat): the classification of the material's
\* shader graph (material_source.py).
from_material(mat) == mat.source

\* MaterialSource.to_sort_key(diffuse): the source classification combined with
\* the diffuse flag.
to_sort_key(material_source, diffuse) == <<material_source, diffuse>>

\* A variant of line 20 that starts the group afresh.
AddToGroupOverwriting(groups, sort_key, mat) ==
    [k \in DOMAIN groups \cup {sort_key} |->
        IF k = sort_key THEN <<mat>> ELSE groups[k]]

\* Line 20, mat_dict[sort_key].append(mat) on a defaultdict(list): a key not
\* seen before starts from the empty list.
AddToGroup(groups, sort_key, mat) ==
    [k \in DOMAIN groups \cup {sort_key} |->
        IF k = sort_key
        THEN Append(IF sort_key \in DOMAIN groups THEN groups[sort_key] ELSE <<>>, mat)
        ELSE groups[k]]

\* Lines 16-20: the loop over mat_list from entry i on.
RECURSIVE GroupFrom(_, _, _, _)
GroupFrom(mats, mat_list, i, groups) ==
    IF i > Len(mat_list) THEN groups
    ELSE LET mat == mat_list[i]
             material_source == from_material(mats[mat])
             sort_key == to_sort_key(material_source, mats[mat].smc_diffuse)
         IN  GroupFrom(mats, mat_list, i + 1, AddToGroup(groups, sort_key, mat))

\* sort_materials(mat_list): the materials after lines 13-14 and the groups returned.
sort_materials(mats, mat_list) ==
    LET cleared == [m \in DOMAIN mats |-> [mats[m] EXCEPT !.root_mat = "None"]]
    IN  [materials |-> cleared, mat_dict |-> GroupFrom(cleared, mat_list, 1, <<>>)]

----------------------------------------------------------------------------
(* Sorting a list of materials into atlas groups *)

NumMaterials == 3
MaxMatList == 3

MaterialIds == 1..NumMaterials
Sources == {"image", "colour"}

RECURSIVE SeqsUpTo(_, _)
SeqsUpTo(S, n) ==
    IF n = 0 THEN {<<>>}
    ELSE LET shorter == SeqsUpTo(S, n - 1)
         IN  shorter \cup {Append(q, x) : q \in shorter, x \in S}

MatLists == SeqsUpTo(MaterialIds, MaxMatList)

SortInit ==
    /\ phase = "idle"
    /\ call = NoCall
    /\ exit = "none"
    /\ \E root \in {"None", "stale"} :
           materials \in [MaterialIds -> [source : Sources, smc_diffuse : BOOLEAN,
                                          root_mat : {root}]]
    /\ mat_dict = <<>>
    /\ PasteIdle
    /\ BufferIdle
    /\ PanelIdle
    /\ FilesIdle
    /\ HostIdle

SortMaterials ==
    /\ phase = "idle"
    /\ \E mat_list \in MatLists :
           LET r == sort_materials(materials, mat_list)
           IN  /\ materials' = r.materials
               /\ mat_dict' = r.mat_dict
               /\ call' = [op |-> "sort_materials", mat_list |-> mat_list]
    /\ exit' = "return"
    /\ phase' = "done"
    /\ UNCHANGED <<target, img, buffer, context, layout, files, images, image_buffer>>

SortNext == SortMaterials

SpecSort == SortInit /\ [][SortNext]_vars

----------------------------------------------------------------------------
(* Claims about sort_materials *)

Sorted == phase = "done" /\ call.op = "sort_materials"

SortKey(mat) == to_sort_key(from_material(materials[mat]), materials[mat].smc_diffuse)

\* The positions of mat_list whose entry has the given sort key, in order.
RECURSIVE EntriesWithKey(_, _)
EntriesWithKey(mat_list, key) ==
    IF mat_list = <<>> THEN <<>>
    ELSE IF SortKey(Head(mat_list)) = key
         THEN <<Head(mat_list)>> \o EntriesWithKey(Tail(mat_list), key)
         ELSE EntriesWithKey(Tail(mat_list), key)

\* C7: the groups sort_materials returns partition mat_list: every entry is in
\* exactly one group, two entries share a group exactly when their sort keys
\* are equal, and the entries of a group keep their order from mat_list.
C7_GroupsPartitionByKey ==
    Sorted =>
        /\ DOMAIN mat_dict = {SortKey(call.mat_list[i]) : i \in 1..Len(call.mat_list)}
        /\ \A key \in DOMAIN mat_dict :
               mat_dict[key] = EntriesWithKey(call.mat_list, key)

\* A sort that made two groups, one of them of two entries or more.
C7_Witness ==
    /\ Sorted
    /\ Cardinality(DOMAIN mat_dict) >= 2
    /\ \E key \in DOMAIN mat_dict : Len(mat_dict[key]) >= 2

----------------------------------------------------------------------------
(* ui/shader_nodes_panels.py: ShaderNodesOverridePanel *)

\* Lines 13-27: whether the panel is shown.  c.material is "None" or a
\* material, whose node_tree is "None" or has the nodes of mat.nodes.
poll(c) ==
    IF c.space_data.node_tree # c.space_data.edit_tree THEN FALSE
    ELSE IF c.space_data.tree_type = "ShaderNodeTree"
         THEN /\ c.has_material
              /\ c.material.node_tree # "None"
              /\ DOMAIN c.material.nodes # {}
         ELSE FALSE

Item(kind, text, arg) == [kind |-> kind, text |-> text, arg |-> arg]

\* Lines 30-46: the four buttons and the separator.
PanelButtons ==
    <<Item("label", "Override search start node", ""),
      Item("operator", "smc.shader_nodes_set_active_as_override", ""),
      Item("operator", "smc.shader_nodes_set_override_as_active", ""),
      Item("operator", "smc.shader_nodes_clear_override", ""),
      Item("operator", "smc.shader_nodes_frame_override", ""),
      Item("separator", "", "")>>

\* Python's None where a node is expected.
NoneNode == [none |-> TRUE]

\* nodes.get(name): the node of that name, or None.
NodesGet(nodes, name) == IF name \in DOMAIN nodes THEN nodes[name] ELSE NoneNode

\* Lines 55-63: the override node's header, and the node itself when expanded.
NodeHeader(c, name, override_node) ==
    <<Item("prop", "smc_override_node_toggle_full_view",
           IF override_node.label # "" THEN override_node.label ELSE override_node.bl_label)>>
    \o (IF c.window_manager.smc_override_node_toggle_full_view
        THEN <<Item("template_node_view", name, "")>>
        ELSE <<>>)

\* A variant that reads the node without testing that it was found.
draw_unchecked(c) ==
    LET mat == c.material
        override_name == mat.smc_override_node_name
    IN  IF override_name # ""
        THEN IF mat.node_tree = "None"
             THEN [exit |-> "AttributeError",
                   layout |-> PanelButtons \o <<Item("label", "Override node:", "")>>]
             ELSE LET override_node == NodesGet(mat.nodes, override_name)
                  IN  IF override_node = NoneNode
                      THEN [exit |-> "AttributeError",
                            layout |-> PanelButtons
                                       \o <<Item("label", "Override node:", ""),
                                            Item("box", "", "")>>]
                      ELSE [exit |-> "return",
                            layout |-> PanelButtons
                                       \o <<Item("label", "Override node:", ""),
                                            Item("box", "", "")>>
                                       \o NodeHeader(c, override_name, override_node)]
        ELSE [exit |-> "return",
              layout |-> PanelButtons
                         \o <<Item("label", "No override set", ""),
                              Item("label", "Using active output node(s)", "")>>]

\* Lines 29-68: draw.
draw(c) ==
    LET mat == c.material
        override_name == mat.smc_override_node_name
    IN  IF override_name # ""
        THEN IF mat.node_tree = "None"
             \* node_tree.nodes on None
             THEN [exit |-> "AttributeError",
                   layout |-> PanelButtons \o <<Item("label", "Override node:", "")>>]
             ELSE LET override_node == NodesGet(mat.nodes, override_name)
                  IN  [exit |-> "return",
                       layout |-> PanelButtons
                                  \o <<Item("label", "Override node:", ""),
                                       Item("box", "", "")>>
                                  \o (IF override_node # NoneNode
                                      THEN NodeHeader(c, override_name, override_node)
                                      ELSE <<Item("label", "Node '{}' not found",
                                                  override_name)>>)]
        ELSE [exit |-> "return",
              layout |-> PanelButtons
                         \o <<Item("label", "No override set", ""),
                              Item("label", "Using active output node(s)", "")>>]

----------------------------------------------------------------------------
(* The override panel of one material while its override and nodes change *)

\* The nodes of the material's node tree when the editor opens.
InitialNodes ==
    [n \in {"Principled BSDF", "Image Texture", "Material Output"} |->
        [label |-> IF n = "Image Texture" THEN "Atlas" ELSE "", bl_label |-> n]]

NodeNames == DOMAIN InitialNodes

PanelInit ==
    /\ phase = "idle"
    /\ call = NoCall
    /\ exit = "none"
    /\ layout = <<>>
    /\ \E tree_type \in {"ShaderNodeTree", "CompositorNodeTree"},
          edit_tree \in {"material tree", "group tree"},
          node_tree \in {"None", "material tree"} :
           context = [space_data |-> [node_tree |-> "material tree", edit_tree |-> edit_tree,
                                      tree_type |-> tree_type],
                      has_material |-> TRUE,
                      material |-> [smc_override_node_name |-> "",
                                    node_tree |-> node_tree,
                                    nodes |-> IF node_tree = "None" THEN <<>> ELSE InitialNodes],
                      window_manager |-> [smc_override_node_toggle_full_view |-> FALSE]]
    /\ PasteIdle
    /\ BufferIdle
    /\ SortIdle
    /\ FilesIdle
    /\ HostIdle

PanelFrame == UNCHANGED <<target, img, buffer, materials, mat_dict, files, images, image_buffer>>

\* The material's override node name is set (smc.shader_nodes_set_active_as_override,
\* or the property written directly).
SetOverride ==
    /\ \E name \in NodeNames :
           context' = [context EXCEPT !.material.smc_override_node_name = name]
    /\ call' = [op |-> "set_override"]
    /\ phase' = "edited"
    /\ UNCHANGED <<exit, layout>>
    /\ PanelFrame

\* smc.shader_nodes_clear_override
ClearOverride ==
    /\ context.material.smc_override_node_name # ""
    /\ context' = [context EXCEPT !.material.smc_override_node_name = ""]
    /\ call' = [op |-> "clear_override"]
    /\ phase' = "edited"
    /\ UNCHANGED <<exit, layout>>
    /\ PanelFrame

\* The user deletes a node from the material's node tree.
DeleteNode ==
    /\ \E name \in DOMAIN context.material.nodes :
           context' = [context EXCEPT !.material.nodes =
                          [n \in DOMAIN context.material.nodes \ {name} |->
                              context.material.nodes[n]]]
    /\ call' = [op |-> "delete_node"]
    /\ phase' = "edited"
    /\ UNCHANGED <<exit, layout>>
    /\ PanelFrame

\* The user expands or collapses the override node's header (line 56).
ToggleFullView ==
    /\ context' = [context EXCEPT !.window_manager.smc_override_node_toggle_full_view = ~@]
    /\ call' = [op |-> "toggle_full_view"]
    /\ phase' = "edited"
    /\ UNCHANGED <<exit, layout>>
    /\ PanelFrame

\* The host redraws the panel: draw runs when poll allows it.
Draw ==
    /\ phase # "drawn"
    /\ poll(context) # FALSE
    /\ LET r == draw(context)
       IN  /\ layout' = r.layout
           /\ exit' = r.exit
    /\ call' = [op |-> "draw"]
    /\ phase' = "drawn"
    /\ UNCHANGED context
    /\ PanelFrame

PanelNext ==
    \/ SetOverride
    \/ ClearOverride
    \/ DeleteNode
    \/ ToggleFullView
    \/ Draw

SpecPanel == PanelInit /\ [][PanelNext]_vars

----------------------------------------------------------------------------
(* Claims about the override panel *)

Drawn == phase = "drawn"

Shows(item) == \E i \in 1..Len(layout) : layout[i] = item
ShowsKind(kind) == \E i \in 1..Len(layout) : layout[i].kind = kind

OverrideName == context.material.smc_override_node_name
OverrideFound == OverrideName \in DOMAIN context.material.nodes

ShowsNoOverride == Shows(Item("label", "No override set", ""))
ShowsHeader == ShowsKind("prop")
ShowsNotFound == \E i \in 1..Len(layout) : layout[i].text = "Node '{}' not found"

\* C8: after any sequence of setting the override name, deleting nodes and
\* clearing the override, draw completes without error and shows exactly one of
\* 'No override set' (name empty), the override node's header (name set, node
\* exists) and 'Node <name> not found' (name set, no such node).
C8_DrawShowsOneOfThreeStates ==
    Drawn =>
        /\ exit = "return"
        /\ ShowsNoOverride <=> OverrideName = ""
        /\ ShowsHeader <=> (OverrideName # "" /\ OverrideFound)
        /\ ShowsNotFound <=> (OverrideName # "" /\ ~OverrideFound)
        /\ ShowsHeader =>
               Shows(Item("prop", "smc_override_node_toggle_full_view",
                          IF context.material.nodes[OverrideName].label # ""
                          THEN context.material.nodes[OverrideName].label
                          ELSE context.material.nodes[OverrideName].bl_label))
        /\ ShowsNotFound => Shows(Item("label", "Node '{}' not found", OverrideName))

\* The panel drawn for an override whose node was deleted.
C8_Witness == Drawn /\ OverrideName # "" /\ ~OverrideFound /\ ShowsNotFound

----------------------------------------------------------------------------
(* utils/ctypes_imbuf_utils.py: numpy_pixels_to_file, numpy_pixels_to_image *)

\* os.path.join(tempfile.gettempdir(), temp_png_image_name)
TempPath == "<tempdir>/MaterialCombinerTemporaryAtlasImage.png"

\* filepath.endswith('.png'), over the paths of the model.
EndsWithPng(filepath) == filepath \in {TempPath, "//textures/atlas.png"}

\* imbuf.new((1, 1)) seen through get_c_imbuf: a 1 x 1 ImBuf that owns its rect.
NewImBuf == [x |-> 1, y |-> 1, planes |-> 32, channels |-> 4, rect |-> "rect of the ImBuf"]

\* The attributes of a ctypes pointer instance such as c_image_buffer.rect;
\* reading any other attribute raises AttributeError, assigning one creates it
\* on that Python object only.
PointerAttributes == {"contents"}

\* Lines 187-208: the borrowed ImBuf is pointed at the array, written, and its
\* fields set back.  rect is not among the fields set back: line 205 assigns
\* the attribute 'content' of a temporary pointer object.
WriteBorrowed(c_image_buffer, shape, filepath, fs, write_raises) ==
    LET borrowed == [c_image_buffer EXCEPT !.channels = shape[3], !.x = shape[2],
                                           !.y = shape[1], !.rect = "data of the array",
                                           !.planes = 8 * shape[3]]
        restored == [borrowed EXCEPT !.channels = c_image_buffer.channels,
                                     !.planes = c_image_buffer.planes,
                                     !.x = c_image_buffer.x, !.y = c_image_buffer.y]
    IN  IF write_raises
        THEN [exit |-> "RuntimeError", files |-> fs, c_image_buffer |-> restored]
        ELSE [exit |-> "return", files |-> fs \cup {filepath}, c_image_buffer |-> restored]

\* numpy_pixels_to_file(pixel_buffer, filepath); pixel_buffer is [dtype, shape]
\* with shape = (height, width, channels).
numpy_pixels_to_file(pixel_buffer, filepath, fs, write_raises) ==
    LET channels == pixel_buffer.shape[3]
        c_image_buffer == NewImBuf
        \* raised before line 175: no ImBuf exists yet
        refused(e) == [exit |-> e, files |-> fs, c_image_buffer |-> NoImBuf]
    IN  IF ~EndsWithPng(filepath) THEN refused("TypeError")
        ELSE IF pixel_buffer.dtype \notin {"ubyte", "single"} THEN refused("TypeError")
        ELSE IF channels # 4
             THEN IF channels > 4 THEN refused("TypeError") ELSE refused("RuntimeError")
        \* line 182: old_rect = c_image_buffer.rect.content
        ELSE IF "content" \notin PointerAttributes
             THEN [exit |-> "AttributeError", files |-> fs, c_image_buffer |-> c_image_buffer]
        ELSE WriteBorrowed(c_image_buffer, pixel_buffer.shape, filepath, fs, write_raises)

\* Lines 235-253, the body of the try; fault names the step that raises, if any.
RepointAndLoad(image, fs, image_file_path, pixel_buffer, write_to_image_filepath, temp_file_mark_dirty, fault) ==
    LET pointed == [image EXCEPT !.filepath_raw = image_file_path]
        \* the reload that setting source or filepath triggers
        reloaded == [pointed EXCEPT !.source = "FILE", !.is_dirty = FALSE,
                                    !.size = <<pixel_buffer.shape[2], pixel_buffer.shape[1]>>,
                                    !.channels = pixel_buffer.shape[3]]
        marked == IF temp_file_mark_dirty THEN [reloaded EXCEPT !.is_dirty = TRUE]
                  ELSE reloaded
    IN  IF fault = "repoint" THEN [exit |-> "RuntimeError", img |-> pointed, files |-> fs]
        ELSE IF write_to_image_filepath THEN [exit |-> "return", img |-> reloaded, files |-> fs]
        ELSE IF fault = "load" THEN [exit |-> "RuntimeError", img |-> reloaded, files |-> fs]
        ELSE IF fault = "remove" \/ image_file_path \notin fs
             THEN [exit |-> "OSError", img |-> marked, files |-> fs]
        ELSE [exit |-> "return", img |-> marked, files |-> fs \ {image_file_path}]

\* A variant that points the image at the file before the file is written.
numpy_pixels_to_image_repoint_first(image, fs, pixel_buffer, write_to_image_filepath, temp_file_mark_dirty, fault) ==
    IF write_to_image_filepath /\ image.source # "FILE"
    THEN [exit |-> "TypeError", img |-> image, files |-> fs, c_image_buffer |-> NoImBuf]
    ELSE LET image_file_path == IF ~write_to_image_filepath THEN TempPath
                                ELSE image.filepath_raw
             old_filepath_raw == image.filepath_raw
             pointed == [image EXCEPT !.filepath_raw = image_file_path]
             written == numpy_pixels_to_file(pixel_buffer, image_file_path, fs,
                                             fault = "write")
         IN  IF written.exit # "return"
             THEN [exit |-> written.exit, img |-> pointed, files |-> written.files,
                   c_image_buffer |-> written.c_image_buffer]
             ELSE LET tried == RepointAndLoad(pointed, written.files, image_file_path,
                                              pixel_buffer, write_to_image_filepath,
                                              temp_file_mark_dirty, fault)
                  IN  [exit |-> tried.exit,
                       img |-> IF ~write_to_image_filepath
                               THEN [tried.img EXCEPT !.filepath_raw = old_filepath_raw]
                               ELSE tried.img,
                       files |-> tried.files,
                       c_image_buffer |-> written.c_image_buffer]

\* numpy_pixels_to_image(img, pixel_buffer, write_to_image_filepath,
\* temp_file_mark_dirty), lines 224-258.
numpy_pixels_to_image(image, fs, pixel_buffer, write_to_image_filepath, temp_file_mark_dirty, fault) ==
    IF write_to_image_filepath /\ image.source # "FILE"
    THEN [exit |-> "TypeError", img |-> image, files |-> fs, c_image_buffer |-> NoImBuf]
    ELSE LET image_file_path == IF ~write_to_image_filepath THEN TempPath
                                ELSE image.filepath_raw
             old_filepath_raw == image.filepath_raw
             written == numpy_pixels_to_file(pixel_buffer, image_file_path, fs,
                                             fault = "write")
         IN  IF written.exit # "return"
             THEN [exit |-> written.exit, img |-> image, files |-> written.files,
                   c_image_buffer |-> written.c_image_buffer]
             ELSE LET tried == RepointAndLoad(image, written.files, image_file_path,
                                              pixel_buffer, write_to_image_filepath,
                                              temp_file_mark_dirty, fault)
                  IN  [exit |-> tried.exit,
                       \* finally: the filepath is set back when a temporary file was used
                       img |-> IF ~write_to_image_filepath
                               THEN [tried.img EXCEPT !.filepath_raw = old_filepath_raw]
                               ELSE tried.img,
                       files |-> tried.files,
                       c_image_buffer |-> written.c_image_buffer]

----------------------------------------------------------------------------
(* Writing a pixel array back into an image through a file *)

MaxSide == 2

ImagePaths == {"", "//textures/atlas.png", "//textures/atlas.jpg"}

FileImages ==
    {[size |-> <<1, 1>>, channels |-> 4, colorspace |-> "sRGB", pixels |-> <<0, 0, 0, Unit>>,
      filepath_raw |-> path, source |-> source, is_dirty |-> dirty] :
        path \in ImagePaths, source \in {"FILE", "GENERATED"}, dirty \in BOOLEAN}

PixelArrays ==
    {[dtype |-> dtype, shape |-> <<height, width, channels>>] :
        dtype \in {"ubyte", "single", "double"},
        height \in 1..MaxSide, width \in 1..MaxSide, channels \in 3..(MaxChannels + 1)}

Faults == {"none", "write", "repoint", "load", "remove"}

ImageInit ==
    /\ phase = "idle"
    /\ call = NoCall
    /\ exit = "none"
    /\ img \in FileImages
    /\ files = IF img.filepath_raw = "" \/ img.source # "FILE" THEN {} ELSE {img.filepath_raw}
    /\ buffer = NoBuffer
    /\ PasteIdle
    /\ SortIdle
    /\ PanelIdle
    /\ HostIdle

NumpyPixelsToImage ==
    /\ phase = "idle"
    /\ \E pixel_buffer \in PixelArrays, write_to_image_filepath \in BOOLEAN,
          temp_file_mark_dirty \in BOOLEAN, fault \in Faults :
           LET r == numpy_pixels_to_image(img, files, pixel_buffer, write_to_image_filepath,
                                          temp_file_mark_dirty, fault)
           IN  /\ img' = r.img
               /\ files' = r.files
               /\ image_buffer' = r.c_image_buffer
               /\ exit' = r.exit
               /\ call' = [op |-> "numpy_pixels_to_image", before |-> img,
                           pixel_buffer |-> pixel_buffer,
                           write_to_image_filepath |-> write_to_image_filepath,
                           temp_file_mark_dirty |-> temp_file_mark_dirty]
    /\ phase' = "done"
    /\ UNCHANGED <<target, buffer, materials, mat_dict, context, layout, images>>

NumpyPixelsToFile ==
    /\ phase = "idle"
    /\ \E pixel_buffer \in PixelArrays, filepath \in (ImagePaths \ {""}) \cup {TempPath},
          write_raises \in BOOLEAN :
           LET r == numpy_pixels_to_file(pixel_buffer, filepath, files, write_raises)
           IN  /\ files' = r.files
               /\ image_buffer' = r.c_image_buffer
               /\ exit' = r.exit
               /\ call' = [op |-> "numpy_pixels_to_file", pixel_buffer |-> pixel_buffer,
                           filepath |-> filepath]
    /\ phase' = "done"
    /\ UNCHANGED <<target, img, buffer, materials, mat_dict, context, layout, images>>

ImageNext ==
    \/ NumpyPixelsToImage
    \/ NumpyPixelsToFile

SpecImage == ImageInit /\ [][ImageNext]_vars

----------------------------------------------------------------------------
(* Claims about numpy_pixels_to_image *)

WroteThroughTemporaryFile ==
    /\ phase = "done" /\ call.op = "numpy_pixels_to_image"
    /\ ~call.write_to_image_filepath

\* C9: when numpy_pixels_to_image is called with write_to_image_filepath=False,
\* the image's filepath_raw after the call equals its value before the call on
\* every exit, normal or raising.
C9_FilepathRawRestored ==
    WroteThroughTemporaryFile => img.filepath_raw = call.before.filepath_raw

\* A call through the temporary file, with a 4-channel float array, has left by raising.
C9_Witness ==
    /\ WroteThroughTemporaryFile
    /\ call.pixel_buffer.dtype = "single" /\ call.pixel_buffer.shape[3] = 4
    /\ call.before.filepath_raw # ""
    /\ exit # "return"
    /\ img.filepath_raw = call.before.filepath_raw

----------------------------------------------------------------------------
(* Claims about numpy_pixels_to_file *)

\* numpy_pixels_to_file was called with arguments it accepts: a png path and a
\* 4-channel array of bytes or single floats.
WroteAcceptedPixels ==
    /\ phase = "done" /\ call.op = "numpy_pixels_to_file"
    /\ EndsWithPng(call.filepath)
    /\ call.pixel_buffer.dtype \in {"ubyte", "single"}
    /\ call.pixel_buffer.shape[3] = 4

\* C14: numpy_pixels_to_file leaves through the write, imbuf.write having
\* succeeded or raised, with the borrowed ImBuf's channels, rect pointer,
\* planes, x and y at the values they had before it was borrowed, so that the
\* ImBuf does not keep pointing at the array's memory.
C14_ImBufRestoredAfterWrite ==
    WroteAcceptedPixels =>
        /\ exit \in {"return", "RuntimeError"}
        /\ image_buffer = NewImBuf

====
